---- MODULE Spec2Model ----
(***************************************************************************)
(* Model of the RabbitMQ connection / channel-pool manager of channelog    *)
(* (code/rabbit/rabbit.go) together with the panic helper it relies on     *)
(* (code/helpers/helper.go).                                               *)
(*                                                                         *)
(* Tasks: the reconnect loop, one warm-up task per connection, one watcher *)
(* per channel, callers of PublishWithRetry, callers of Stop, and the      *)
(* broker (connection loss, channel closure).                              *)
(*                                                                         *)
(* Identities: connections 1..MaxConns, channels 1..MaxChans, 0 is nil.    *)
(* Pool k is the pool made together with connection k; pool 0 is the pool  *)
(* made by NewRabbitManager.                                               *)
(***************************************************************************)
EXTENDS Integers, Sequences, FiniteSets

\* ---- bounds of the model ----
MaxConns == 2
MaxChans == 2
NumCallers == 2
MaxCalls == 3
MaxStops == 2
MaxChannelPool == 1

\* ---- program constants ----
maxPublishAttempts == 2
BackoffFloor == 1
BackoffMax == 30

ConnIds == 1..MaxConns
ChanIds == 1..MaxChans
PoolIds == 0..MaxConns
Callers == 1..NumCallers
Stoppers == 1..MaxStops

VARIABLES
    cfg,          \* r.cfg: the configuration given to NewRabbitManager
    mu,           \* r.mu: the task that holds it for writing, those for reading
    badChanMu,    \* r.badChanMu: the task that holds it
    done,         \* r.done is closed
    conn,         \* r.conn (0 = nil)
    pool,         \* r.pool: id of the pool the field refers to
    pools,        \* the pool objects: buffered content, capacity, closed flag
    badChannels,  \* r.badChannels
    conns,        \* connection objects: "none", "open", "closed"
    chans,        \* channel objects: state, parent connection, notification
    loop,         \* the reconnectLoop goroutine
    loop2,        \* the reconnectLoop goroutine of a second call of Start
    warm,         \* the warmUpChannels goroutines, one per connection
    pub,          \* the PublishWithRetry callers
    stop,         \* the Stop callers
    ncalls,       \* number of PublishWithRetry calls made so far
    crashed       \* a panic was not recovered: the process is down

vars == <<cfg, mu, badChanMu, done, conn, pool, pools, badChannels, conns, chans,
          loop, loop2, warm, pub, stop, ncalls, crashed>>

\* ------------------------------------------------------------------------
\* helpers.PanicCatcher: the deferred function is the closure, and the
\* closure calls RecoverPanic, which calls recover().  recover() returns nil
\* unless it is called directly by the deferred function, so the panic is
\* not stopped: it keeps unwinding through the function that deferred
\* PanicCatcher.
PanicCatcherRecovers == FALSE

\* ------------------------------------------------------------------------
\* objects of the AMQP client

Range(s) == {s[i] : i \in 1..Len(s)}

FreeConnIds == {k \in ConnIds : conns[k] = "none"}
FreeChanIds == {c \in ChanIds : chans[c].state = "none"}
Min(S) == CHOOSE x \in S : \A y \in S : x <= y

ConnIsClosed(k) == conns[k] = "closed"

\* (*Channel).Close by the program: a closed channel stays as it is; the
\* notification channel of an open one is closed without a value.
ChanClosed(r) ==
    IF r.state = "open"
    THEN [r EXCEPT !.state = "closed",
                   !.notify = IF @ = "armed" THEN "quiet" ELSE @]
    ELSE r

\* the broker (or the loss of the connection) closes a channel with an
\* error: the error is delivered to the notification channel.
ChanKilled(r) ==
    IF r.state = "open"
    THEN [r EXCEPT !.state = "closed",
                   !.notify = IF @ = "armed" THEN "fired" ELSE @]
    ELSE r

CloseChans(cs, S) == [c \in ChanIds |-> IF c \in S THEN ChanClosed(cs[c]) ELSE cs[c]]

ChansOf(cs, k) == {c \in ChanIds : cs[c].conn = k}

\* (*Connection).Close by the program: idempotent; channels of the
\* connection are shut down without an error.
ChansAfterConnClose(cs, k) ==
    IF k # 0 /\ conns[k] = "open" THEN CloseChans(cs, ChansOf(cs, k)) ELSE cs

ConnsAfterConnClose(k) ==
    IF k # 0 /\ conns[k] = "open" THEN [conns EXCEPT ![k] = "closed"] ELSE conns

\* for ch := range p { ch.Close() } on a closed pool: channels are closed in
\* order; Close on a nil channel panics and ends the drain.
RECURSIVE NilFreePrefix(_)
NilFreePrefix(s) ==
    IF s = <<>> \/ Head(s) = 0 THEN <<>> ELSE <<Head(s)>> \o NilFreePrefix(Tail(s))

DrainPanics(buf) == 0 \in Range(buf)
DrainRest(buf) ==
    IF DrainPanics(buf)
    THEN SubSeq(buf, Len(NilFreePrefix(buf)) + 2, Len(buf))
    ELSE <<>>

NewChan(k) == [state |-> "open", conn |-> k, notify |-> "armed"]
DeadChan(k) == [state |-> "closed", conn |-> k, notify |-> "none"]
NoChan == [state |-> "none", conn |-> 0, notify |-> "none"]

\* ------------------------------------------------------------------------
\* NewRabbitManager

\* a caller: its place in PublishWithRetry / Acquire / Release (pc), the
\* locals ch, attempt, the argument bound to the deferred Release (defCh),
\* the pool and connection an Acquire or Release has read (p, lc), the
\* argument of the running Release (arg) and what follows it (aft), and what
\* the call has done so far: publish attempts made (attempts), channels
\* returned to it by Acquire (got), channels it passed to Release (rel), and
\* the channels whose close notification had fired when its running Acquire
\* began (firedAtAcq).  reported is the attempt count written into the error
\* "failed to publish after %d attempts" (0: no such error).  result is how
\* its last call ended.
IdlePub == [pc |-> "idle", ch |-> 0, defCh |-> 0, attempt |-> 0, attempts |-> 0,
            p |-> 0, lc |-> 0, arg |-> 0, aft |-> "none", phase |-> "none",
            result |-> "none", got |-> <<>>, rel |-> <<>>, firedAtAcq |-> {},
            reported |-> 0]

\* a reconnectLoop goroutine that has not been started
\* (jitter and slept: the last jitter drawn and the last duration slept, in
\* milliseconds, where a specification keeps them)
NoLoop == [pc |-> "notstarted", backoff |-> BackoffFloor, conn |-> 0,
           oldConn |-> 0, oldPool |-> 0, afterStop |-> FALSE, dials |-> 0,
           jitter |-> 0, slept |-> 0]

NoTask == <<"none", 0>>

NewRabbitManager(n) ==
    /\ cfg = [MaxChannelPool |-> n]
    /\ mu = [w |-> NoTask, r |-> {}]
    /\ badChanMu = NoTask
    /\ done = FALSE
    /\ conn = 0
    /\ pool = 0
    /\ pools = [p \in PoolIds |-> [buf |-> <<>>, closed |-> FALSE, made |-> (p = 0),
                                    cap |-> IF p = 0 THEN n ELSE 0]]
    /\ badChannels = {}
    /\ conns = [k \in ConnIds |-> "none"]
    /\ chans = [c \in ChanIds |-> NoChan]
    /\ loop = NoLoop
    /\ loop2 = NoLoop
    /\ warm = [k \in ConnIds |-> [pc |-> "none", i |-> 0, ch |-> 0, p |-> 0]]
    /\ pub = [c \in Callers |-> IdlePub]
    /\ stop = [s \in Stoppers |-> [pc |-> "idle", after |-> FALSE]]
    /\ ncalls = 0
    /\ crashed = FALSE

Init == NewRabbitManager(MaxChannelPool)

\* ------------------------------------------------------------------------
\* a panic that unwinds out of a goroutine started by the manager ends the
\* process; nothing runs afterwards.
Alive == ~crashed

\* ------------------------------------------------------------------------
\* Start, reconnectLoop

Start ==
    /\ Alive
    /\ loop.pc = "notstarted"
    /\ loop' = [loop EXCEPT !.pc = "check",
                            !.afterStop = \E s \in Stoppers : stop[s].pc # "idle"]
    /\ UNCHANGED <<cfg, loop2, mu, badChanMu, done, conn, pool, pools, badChannels, conns, chans,
                   warm, pub, stop, crashed, ncalls>>

\* the loop without its stop check
LoopCheckDone_NoStopCheck ==
    /\ Alive
    /\ loop.pc = "check"
    /\ loop' = [loop EXCEPT !.pc = "dial"]
    /\ UNCHANGED <<cfg, loop2, mu, badChanMu, done, conn, pool, pools, badChannels, conns, chans,
                   warm, pub, stop, crashed, ncalls>>

\* select { case <-r.done: return; default: }
LoopCheckDone ==
    /\ Alive
    /\ loop.pc = "check"
    /\ loop' = [loop EXCEPT !.pc = IF done THEN "exit" ELSE "dial"]
    /\ UNCHANGED <<cfg, loop2, mu, badChanMu, done, conn, pool, pools, badChannels, conns, chans,
                   warm, pub, stop, crashed, ncalls>>

\* a successful dial that leaves backoff as it is
LoopDialOk_NoReset ==
    /\ Alive
    /\ loop.pc = "dial"
    /\ FreeConnIds # {}
    /\ LET k == Min(FreeConnIds) IN
        /\ conns' = [conns EXCEPT ![k] = "open"]
        /\ loop' = [loop EXCEPT !.pc = "swap", !.conn = k, !.dials = 1]
    /\ UNCHANGED <<cfg, loop2, mu, badChanMu, done, conn, pool, pools, badChannels, chans,
                   warm, pub, stop, crashed, ncalls>>

\* amqp.DialConfig succeeds: backoff = time.Second
LoopDialOk ==
    /\ Alive
    /\ loop.pc = "dial"
    /\ FreeConnIds # {}
    /\ LET k == Min(FreeConnIds) IN
        /\ conns' = [conns EXCEPT ![k] = "open"]
        /\ loop' = [loop EXCEPT !.pc = "swap", !.conn = k,
                                !.backoff = BackoffFloor, !.dials = 1]
    /\ UNCHANGED <<cfg, loop2, mu, badChanMu, done, conn, pool, pools, badChannels, chans,
                   warm, pub, stop, crashed, ncalls>>

\* amqp.DialConfig fails
LoopDialFail ==
    /\ Alive
    /\ loop.pc = "dial"
    /\ loop' = [loop EXCEPT !.pc = "sleep", !.dials = 1]
    /\ UNCHANGED <<cfg, loop2, mu, badChanMu, done, conn, pool, pools, badChannels, conns, chans,
                   warm, pub, stop, crashed, ncalls>>

\* rng.Int63n(1000) - 500 lies in -500..499 (milliseconds); the extremes
\* and the middle stand for the range.
JitterValues == {-500, 0, 499}

NextBackoff(b) == IF b < BackoffMax THEN b * 2 ELSE b

\* time.Sleep(backoff + jitter); if backoff < BackoffMax { backoff *= 2 }
LoopSleep ==
    /\ Alive
    /\ loop.pc = "sleep"
    /\ loop' = [loop EXCEPT !.pc = "check", !.backoff = NextBackoff(loop.backoff)]
    /\ UNCHANGED <<cfg, loop2, mu, badChanMu, done, conn, pool, pools, badChannels, conns, chans,
                   warm, pub, stop, crashed, ncalls>>

\* rng.Int63n(RngBound) returns a value of 0 .. RngBound-1
RngBound == 1000
JitterShift == 500
MsPerSecond == 1000

\* time.Duration(rng.Int63n(1000)-500) * time.Millisecond, in milliseconds,
\* for the value n that rng.Int63n returns
Jitter(n) == n - JitterShift

\* LoopSleep with the random value n drawn and the duration kept:
\* jitter := Jitter(n); time.Sleep(backoff + jitter); the doubling
LoopSleepTimed(n) ==
    /\ Alive
    /\ loop.pc = "sleep"
    /\ n \in 0 .. RngBound - 1
    /\ loop' = [loop EXCEPT !.pc = "check", !.backoff = NextBackoff(loop.backoff),
                            !.jitter = Jitter(n),
                            !.slept = loop.backoff * MsPerSecond + Jitter(n)]
    /\ UNCHANGED <<cfg, loop2, mu, badChanMu, done, conn, pool, pools, badChannels, conns, chans,
                   warm, pub, stop, crashed, ncalls>>

\* r.mu.Lock(); oldConn, oldPool := r.conn, r.pool; r.conn = conn;
\* r.pool = make(...); r.mu.Unlock(); go r.warmUpChannels(conn)
LoopSwapSection ==
    /\ Alive
    /\ loop.pc = "swap"
    /\ LET k == loop.conn IN
        /\ loop' = [loop EXCEPT !.pc = "teardown", !.oldConn = conn, !.oldPool = pool]
        /\ conn' = k
        /\ pool' = k
        /\ pools' = [pools EXCEPT ![k] = [buf |-> <<>>, closed |-> FALSE, made |-> TRUE,
                                          cap |-> cfg.MaxChannelPool]]
        /\ warm' = [warm EXCEPT ![k] = [pc |-> "open", i |-> 0, ch |-> 0, p |-> 0]]
    /\ UNCHANGED <<cfg, loop2, done, badChannels, conns, chans, pub, stop, crashed, ncalls>>

\* LoopSwap with its Lock and Unlock taken within the step
LoopSwap ==
    LoopSwapSection /\ UNCHANGED <<mu, badChanMu>>

\* the outcome of a panic in reconnectLoop, which defers PanicCatcher
LoopPanicPc == IF PanicCatcherRecovers THEN "exit" ELSE "panicked"

\* a teardown that closes the old pool and leaves its content as it is
LoopTeardown_NoDrain ==
    /\ Alive
    /\ loop.pc = "teardown"
    /\ ~pools[loop.oldPool].closed
    /\ conns' = ConnsAfterConnClose(loop.oldConn)
    /\ chans' = ChansAfterConnClose(chans, loop.oldConn)
    /\ pools' = [pools EXCEPT ![loop.oldPool].closed = TRUE]
    /\ loop' = [loop EXCEPT !.pc = "wait"]
    /\ UNCHANGED <<cfg, loop2, mu, badChanMu, done, conn, pool, badChannels, warm, pub, stop, crashed, ncalls>>

\* if oldConn != nil { oldConn.Close() }; close(oldPool);
\* for ch := range oldPool { ch.Close() }
LoopTeardown ==
    /\ Alive
    /\ loop.pc = "teardown"
    /\ LET oc == loop.oldConn
           op == loop.oldPool
           cs1 == ChansAfterConnClose(chans, oc)
           buf == pools[op].buf
       IN
        /\ conns' = ConnsAfterConnClose(oc)
        /\ IF pools[op].closed
           THEN \* close of a closed channel
                /\ chans' = cs1
                /\ pools' = pools
                /\ loop' = [loop EXCEPT !.pc = LoopPanicPc]
                /\ crashed' = ~PanicCatcherRecovers
           ELSE /\ chans' = CloseChans(cs1, Range(NilFreePrefix(buf)))
                /\ pools' = [pools EXCEPT ![op].closed = TRUE, ![op].buf = DrainRest(buf)]
                /\ loop' = [loop EXCEPT !.pc = IF DrainPanics(buf) THEN LoopPanicPc ELSE "wait"]
                /\ crashed' = (DrainPanics(buf) /\ ~PanicCatcherRecovers)
    /\ UNCHANGED <<cfg, loop2, mu, badChanMu, done, conn, pool, badChannels, warm, pub, stop, ncalls>>

\* a loop that goes back to dialing without waiting for the close of its
\* connection
LoopWaitClosed_NoWait ==
    /\ Alive
    /\ loop.pc = "wait"
    /\ loop' = [loop EXCEPT !.pc = "check"]
    /\ UNCHANGED <<cfg, loop2, mu, badChanMu, done, conn, pool, pools, badChannels, conns, chans,
                   warm, pub, stop, crashed, ncalls>>

\* select { case err := <-notifyConn: ... } : the connection was closed
LoopWaitClosed ==
    /\ Alive
    /\ loop.pc = "wait"
    /\ ConnIsClosed(loop.conn)
    /\ loop' = [loop EXCEPT !.pc = "check"]
    /\ UNCHANGED <<cfg, loop2, mu, badChanMu, done, conn, pool, pools, badChannels, conns, chans,
                   warm, pub, stop, crashed, ncalls>>

\* select { case <-r.done: conn.Close(); return }
LoopWaitDone ==
    /\ Alive
    /\ loop.pc = "wait"
    /\ done
    /\ conns' = ConnsAfterConnClose(loop.conn)
    /\ chans' = ChansAfterConnClose(chans, loop.conn)
    /\ loop' = [loop EXCEPT !.pc = "exit"]
    /\ UNCHANGED <<cfg, loop2, mu, badChanMu, done, conn, pool, pools, badChannels,
                   warm, pub, stop, crashed, ncalls>>

\* ------------------------------------------------------------------------
\* Start called again: go r.reconnectLoop() starts a second goroutine that
\* runs the same loop on the same manager.  Its steps are those of the
\* first loop, on its own locals (loop2).

StartAgain ==
    /\ Alive
    /\ loop.pc # "notstarted"
    /\ loop2.pc = "notstarted"
    /\ loop2' = [loop2 EXCEPT !.pc = "check",
                              !.afterStop = \E s \in Stoppers : stop[s].pc # "idle"]
    /\ UNCHANGED <<cfg, mu, badChanMu, done, conn, pool, pools, badChannels, conns, chans,
                   loop, warm, pub, stop, crashed, ncalls>>

\* select { case <-r.done: return; default: }
SecondLoopCheckDone ==
    /\ Alive
    /\ loop2.pc = "check"
    /\ loop2' = [loop2 EXCEPT !.pc = IF done THEN "exit" ELSE "dial"]
    /\ UNCHANGED <<cfg, mu, badChanMu, done, conn, pool, pools, badChannels, conns, chans,
                   loop, warm, pub, stop, crashed, ncalls>>

\* amqp.DialConfig succeeds
SecondLoopDialOk ==
    /\ Alive
    /\ loop2.pc = "dial"
    /\ FreeConnIds # {}
    /\ LET k == Min(FreeConnIds) IN
        /\ conns' = [conns EXCEPT ![k] = "open"]
        /\ loop2' = [loop2 EXCEPT !.pc = "swap", !.conn = k,
                                  !.backoff = BackoffFloor, !.dials = 1]
    /\ UNCHANGED <<cfg, mu, badChanMu, done, conn, pool, pools, badChannels, chans,
                   loop, warm, pub, stop, crashed, ncalls>>

\* the swap under r.mu, and go r.warmUpChannels(conn)
SecondLoopSwap ==
    /\ Alive
    /\ loop2.pc = "swap"
    /\ LET k == loop2.conn IN
        /\ loop2' = [loop2 EXCEPT !.pc = "teardown", !.oldConn = conn, !.oldPool = pool]
        /\ conn' = k
        /\ pool' = k
        /\ pools' = [pools EXCEPT ![k] = [buf |-> <<>>, closed |-> FALSE, made |-> TRUE,
                                          cap |-> cfg.MaxChannelPool]]
        /\ warm' = [warm EXCEPT ![k] = [pc |-> "open", i |-> 0, ch |-> 0, p |-> 0]]
    /\ UNCHANGED <<cfg, mu, badChanMu, done, badChannels, conns, chans, loop, pub, stop,
                   crashed, ncalls>>

\* oldConn.Close(); close(oldPool); for ch := range oldPool { ch.Close() }
SecondLoopTeardown ==
    /\ Alive
    /\ loop2.pc = "teardown"
    /\ LET oc == loop2.oldConn
           op == loop2.oldPool
           cs1 == ChansAfterConnClose(chans, oc)
           buf == pools[op].buf
       IN
        /\ conns' = ConnsAfterConnClose(oc)
        /\ IF pools[op].closed
           THEN /\ chans' = cs1
                /\ pools' = pools
                /\ loop2' = [loop2 EXCEPT !.pc = LoopPanicPc]
                /\ crashed' = ~PanicCatcherRecovers
           ELSE /\ chans' = CloseChans(cs1, Range(NilFreePrefix(buf)))
                /\ pools' = [pools EXCEPT ![op].closed = TRUE, ![op].buf = DrainRest(buf)]
                /\ loop2' = [loop2 EXCEPT !.pc = IF DrainPanics(buf) THEN LoopPanicPc ELSE "wait"]
                /\ crashed' = (DrainPanics(buf) /\ ~PanicCatcherRecovers)
    /\ UNCHANGED <<cfg, mu, badChanMu, done, conn, pool, badChannels, loop, warm, pub, stop, ncalls>>

\* select { case err := <-notifyConn: ... } : the connection was closed
SecondLoopWaitClosed ==
    /\ Alive
    /\ loop2.pc = "wait"
    /\ ConnIsClosed(loop2.conn)
    /\ loop2' = [loop2 EXCEPT !.pc = "check"]
    /\ UNCHANGED <<cfg, mu, badChanMu, done, conn, pool, pools, badChannels, conns, chans,
                   loop, warm, pub, stop, crashed, ncalls>>

\* ------------------------------------------------------------------------
\* Stop

\* Stoppers are interchangeable: they are taken in order.
StopMayBegin(s) == \A t \in Stoppers : t < s => stop[t].pc # "idle"

\* Stop without close(r.done)
StopCloseDone_NoClose(s) ==
    /\ Alive
    /\ stop[s].pc = "idle"
    /\ StopMayBegin(s)
    /\ stop' = [stop EXCEPT ![s] = [pc |-> "closedDone", after |-> FALSE]]
    /\ UNCHANGED <<cfg, loop2, mu, badChanMu, done, conn, pool, pools, badChannels, conns, chans, loop, warm,
                   pub, crashed, ncalls>>

\* close(r.done): closing a closed channel panics.  Stop defers nothing and
\* nothing above it recovers: the panic ends the process.
StopCloseDone(s) ==
    /\ Alive
    /\ stop[s].pc = "idle"
    /\ StopMayBegin(s)
    /\ LET after == \E t \in Stoppers : stop[t].pc = "done" IN
        IF done
        THEN /\ stop' = [stop EXCEPT ![s] = [pc |-> "panicked", after |-> after]]
             /\ done' = done
             /\ crashed' = TRUE
        ELSE /\ stop' = [stop EXCEPT ![s] = [pc |-> "closedDone", after |-> after]]
             /\ done' = TRUE
             /\ crashed' = crashed
    /\ UNCHANGED <<cfg, loop2, mu, badChanMu, conn, pool, pools, badChannels, conns, chans, loop, warm, pub, ncalls>>

\* r.mu.Lock(); if r.conn != nil { r.conn.Close() }; close(r.pool);
\* for ch := range r.pool { ch.Close() }; r.mu.Unlock().
\* Every other section under r.mu is one step of its task, so the lock is
\* free whenever this step is taken.
StopLockedSection(s) ==
    /\ Alive
    /\ stop[s].pc = "closedDone"
    /\ LET cs1 == ChansAfterConnClose(chans, conn)
           buf == pools[pool].buf
       IN
        /\ conns' = ConnsAfterConnClose(conn)
        /\ IF pools[pool].closed
           THEN \* close of a closed channel
                /\ chans' = cs1
                /\ pools' = pools
                /\ stop' = [stop EXCEPT ![s].pc = "panicked"]
                /\ crashed' = TRUE
           ELSE /\ chans' = CloseChans(cs1, Range(NilFreePrefix(buf)))
                /\ pools' = [pools EXCEPT ![pool].closed = TRUE, ![pool].buf = DrainRest(buf)]
                /\ stop' = [stop EXCEPT ![s].pc = IF DrainPanics(buf) THEN "panicked" ELSE "done"]
                /\ crashed' = DrainPanics(buf)
    /\ UNCHANGED <<cfg, loop2, done, conn, pool, badChannels, loop, warm, pub, ncalls>>

\* StopLocked with its Lock and Unlock taken within the step
StopLocked(s) ==
    StopLockedSection(s) /\ UNCHANGED <<mu, badChanMu>>

\* ------------------------------------------------------------------------
\* the broker

\* the connection is lost: NotifyClose listeners of the connection and of
\* its channels receive the error
ConnLost(k) ==
    /\ Alive
    /\ conns[k] = "open"
    /\ conns' = [conns EXCEPT ![k] = "closed"]
    /\ chans' = [c \in ChanIds |-> IF chans[c].conn = k THEN ChanKilled(chans[c]) ELSE chans[c]]
    /\ UNCHANGED <<cfg, loop2, mu, badChanMu, done, conn, pool, pools, badChannels, loop, warm, pub, stop, crashed, ncalls>>

\* the broker closes one channel with an error
BrokerCloseChan(c) ==
    /\ Alive
    /\ chans[c].state = "open"
    /\ chans' = [chans EXCEPT ![c] = ChanKilled(@)]
    /\ UNCHANGED <<cfg, loop2, mu, badChanMu, done, conn, pool, pools, badChannels, conns, loop, warm, pub, stop, crashed, ncalls>>

\* handleChannelClose: if err, ok := <-notify; ok { badChannels[ch] = {} }
\* a watcher that takes the error and returns without marking the channel
handleChannelCloseSection_Forgets(c) ==
    /\ Alive
    /\ chans[c].notify = "fired"
    /\ chans' = [chans EXCEPT ![c].notify = "marked"]
    /\ UNCHANGED <<cfg, loop2, done, conn, pool, pools, badChannels, conns, loop, warm, pub, stop, crashed, ncalls>>

handleChannelCloseSection(c) ==
    /\ Alive
    /\ chans[c].notify = "fired"
    /\ badChannels' = badChannels \cup {c}
    /\ chans' = [chans EXCEPT ![c].notify = "marked"]
    /\ UNCHANGED <<cfg, loop2, done, conn, pool, pools, conns, loop, warm, pub, stop, crashed, ncalls>>

\* handleChannelClose with its Lock and Unlock taken within the step
handleChannelClose(c) ==
    handleChannelCloseSection(c) /\ UNCHANGED <<mu, badChanMu>>

\* ------------------------------------------------------------------------
\* warmUpChannels(conn), started by the loop for connection k.  The task
\* defers nothing: a panic in it ends the process.

WarmAdvance(w) ==
    [w EXCEPT !.i = @ + 1, !.ch = 0,
              !.pc = IF w.i + 1 < cfg.MaxChannelPool THEN "open" ELSE "done"]

\* conn.Channel(), QueueDeclare, NotifyClose, go handleChannelClose succeed
WarmOpenOk(k) ==
    /\ Alive
    /\ warm[k].pc = "open"
    /\ conns[k] = "open"
    /\ FreeChanIds # {}
    /\ LET n == Min(FreeChanIds) IN
        /\ chans' = [chans EXCEPT ![n] = NewChan(k)]
        /\ warm' = [warm EXCEPT ![k].pc = "push", ![k].ch = n, ![k].p = pool]
    /\ UNCHANGED <<cfg, loop2, mu, badChanMu, done, conn, pool, pools, badChannels, conns, loop, pub, stop, crashed, ncalls>>

\* conn.Channel() fails: continue
WarmOpenFail(k) ==
    /\ Alive
    /\ warm[k].pc = "open"
    /\ warm' = [warm EXCEPT ![k] = WarmAdvance(@)]
    /\ UNCHANGED <<cfg, loop2, mu, badChanMu, done, conn, pool, pools, badChannels, conns, chans, loop, pub, stop, crashed, ncalls>>

\* QueueDeclare fails: ch.Close(); continue
WarmDeclareFail(k) ==
    /\ Alive
    /\ warm[k].pc = "open"
    /\ conns[k] = "open"
    /\ FreeChanIds # {}
    /\ chans' = [chans EXCEPT ![Min(FreeChanIds)] = DeadChan(k)]
    /\ warm' = [warm EXCEPT ![k] = WarmAdvance(@)]
    /\ UNCHANGED <<cfg, loop2, mu, badChanMu, done, conn, pool, pools, badChannels, conns, loop, pub, stop, crashed, ncalls>>

\* a warm-up push into a pool that takes one channel more than MaxChannelPool
WarmPush_OverCapacity(k) ==
    /\ Alive
    /\ warm[k].pc = "push"
    /\ ~pools[warm[k].p].closed
    /\ Len(pools[warm[k].p].buf) <= pools[warm[k].p].cap
    /\ pools' = [pools EXCEPT ![warm[k].p].buf = Append(@, warm[k].ch)]
    /\ warm' = [warm EXCEPT ![k] = WarmAdvance(@)]
    /\ UNCHANGED <<cfg, loop2, mu, badChanMu, done, conn, pool, badChannels, conns, chans, loop, pub, stop,
                   crashed, ncalls>>

\* select { case r.pool <- ch: default: ch.Close() }
WarmPush(k) ==
    /\ Alive
    /\ warm[k].pc = "push"
    /\ LET q == pools[warm[k].p]
           x == warm[k].ch
       IN
        IF q.closed
        THEN \* send on a closed channel
             /\ crashed' = TRUE
             /\ warm' = [warm EXCEPT ![k].pc = "panicked"]
             /\ UNCHANGED <<pools, chans, ncalls>>
        ELSE /\ crashed' = crashed
             /\ warm' = [warm EXCEPT ![k] = WarmAdvance(@)]
             /\ IF Len(q.buf) < q.cap
                THEN /\ pools' = [pools EXCEPT ![warm[k].p].buf = Append(@, x)]
                     /\ chans' = chans
                ELSE /\ pools' = pools
                     /\ chans' = CloseChans(chans, {x})
    /\ UNCHANGED <<cfg, loop2, mu, badChanMu, done, conn, pool, badChannels, conns, loop, pub, stop, ncalls>>

\* ------------------------------------------------------------------------
\* Acquire, Release, PublishWithRetry, as run by caller c

\* channels whose close notification has fired
Fired == {x \in ChanIds : chans[x].notify \in {"fired", "marked"}}

\* PublishWithRetry returns to its caller (res "ok", "err"), or a panic
\* leaves it (res "panic"); the frame is gone
EndCall(r, res) == [IdlePub EXCEPT !.result = res]

\* entry of Acquire: the select evaluates r.pool
BeginAcquire(r, phase) ==
    [r EXCEPT !.pc = "acqRecv", !.p = pool, !.phase = phase, !.firedAtAcq = Fired]

\* entry of Release(x): x is passed to Release
BeginRelease(r, x, aft) ==
    [r EXCEPT !.pc = "relBad", !.arg = x, !.aft = aft, !.rel = Append(@, x)]

\* Acquire returns (x, nil) to PublishWithRetry.  The first channel is
\* bound to the deferred Release when the defer statement runs.
AcquireOk(r, x) ==
    IF r.phase = "first"
    THEN [r EXCEPT !.pc = "pub", !.ch = x, !.defCh = x, !.attempt = 1,
                   !.got = Append(@, x), !.p = 0, !.lc = 0, !.firedAtAcq = {}]
    ELSE [r EXCEPT !.pc = "pub", !.ch = x, !.attempt = @ + 1,
                   !.got = Append(@, x), !.p = 0, !.lc = 0, !.firedAtAcq = {}]

\* Acquire returns (nil, err) to PublishWithRetry
AcquireErr(r) ==
    IF r.phase = "first"
    THEN EndCall(r, "err")
    ELSE BeginRelease([r EXCEPT !.ch = 0, !.p = 0, !.lc = 0, !.firedAtAcq = {}],
                      r.defCh, "enderr")

\* Release returns
ReleaseReturn(r) ==
    CASE r.aft = "retry" -> BeginAcquire([r EXCEPT !.arg = 0, !.aft = "none"], "retry")
      [] r.aft = "endok" -> EndCall(r, "ok")
      [] r.aft = "enderr" -> EndCall(r, "err")
      [] OTHER -> EndCall(r, "panic")

\* Release panics: the panic unwinds into PublishWithRetry, whose deferred
\* Release(defCh) runs, and then to the caller
ReleasePanic(r) ==
    IF PanicCatcherRecovers
    THEN ReleaseReturn(r)
    ELSE IF r.aft = "retry"
         THEN BeginRelease(r, r.defCh, "endpanic")
         ELSE EndCall(r, "panic")

\* Callers are interchangeable: a call is made by the first idle one.
CallerMayBegin(c) == \A d \in Callers : d < c => pub[d].pc # "idle"

PublishWithRetry(c) ==
    /\ Alive
    /\ pub[c].pc = "idle"
    /\ CallerMayBegin(c)
    /\ ncalls < MaxCalls
    /\ ncalls' = ncalls + 1
    /\ pub' = [pub EXCEPT ![c] = BeginAcquire(IdlePub, "first")]
    /\ UNCHANGED <<cfg, loop2, mu, badChanMu, done, conn, pool, pools, badChannels, conns, chans, loop, warm, stop, crashed>>

\* case ch := <-r.pool, with the check against badChannels; default
AcquireRecvSection(c) ==
    /\ Alive
    /\ pub[c].pc = "acqRecv"
    /\ LET r == pub[c]
           q == pools[r.p]
       IN
        IF q.buf # <<>>
        THEN LET x == Head(q.buf) IN
             /\ pools' = [pools EXCEPT ![r.p].buf = Tail(@)]
             /\ IF x \in badChannels
                THEN /\ badChannels' = badChannels \ {x}
                     /\ chans' = CloseChans(chans, {x})
                     /\ pub' = [pub EXCEPT ![c].p = pool]
                ELSE /\ pub' = [pub EXCEPT ![c] = AcquireOk(r, x)]
                     /\ UNCHANGED <<badChannels, chans, ncalls>>
        ELSE /\ pub' = [pub EXCEPT ![c] = IF q.closed THEN AcquireOk(r, 0)
                                         ELSE [r EXCEPT !.pc = "acqConn"]]
             /\ UNCHANGED <<pools, badChannels, chans, ncalls>>
    /\ UNCHANGED <<cfg, loop2, done, conn, pool, conns, loop, warm, stop, crashed, ncalls>>

\* an Acquire that hands out the head of the pool and leaves it in the pool
AcquireRecv_Peek(c) ==
    /\ Alive
    /\ pub[c].pc = "acqRecv"
    /\ LET r == pub[c]
           q == pools[r.p]
       IN
        IF q.buf # <<>>
        THEN LET x == Head(q.buf) IN
             IF x \in badChannels
             THEN /\ pools' = [pools EXCEPT ![r.p].buf = Tail(@)]
                  /\ badChannels' = badChannels \ {x}
                  /\ chans' = CloseChans(chans, {x})
                  /\ pub' = [pub EXCEPT ![c].p = pool]
             ELSE /\ pub' = [pub EXCEPT ![c] = AcquireOk(r, x)]
                  /\ UNCHANGED <<pools, badChannels, chans>>
        ELSE /\ pub' = [pub EXCEPT ![c] = IF q.closed THEN AcquireOk(r, 0)
                                         ELSE [r EXCEPT !.pc = "acqConn"]]
             /\ UNCHANGED <<pools, badChannels, chans>>
    /\ UNCHANGED <<cfg, loop2, mu, badChanMu, done, conn, pool, conns, loop, warm, stop, crashed, ncalls>>

\* AcquireRecv with its Lock and Unlock taken within the step
AcquireRecv(c) ==
    AcquireRecvSection(c) /\ UNCHANGED <<mu, badChanMu>>

\* r.mu.RLock(); conn := r.conn; r.mu.RUnlock(); conn == nil || conn.IsClosed()
AcquireReadConnSection(c) ==
    /\ Alive
    /\ pub[c].pc = "acqConn"
    /\ pub' = [pub EXCEPT ![c] =
                 IF conn = 0 \/ ConnIsClosed(conn)
                 THEN [@ EXCEPT !.pc = "acqRecv", !.p = pool]
                 ELSE [@ EXCEPT !.pc = "acqOpen", !.lc = conn]]
    /\ UNCHANGED <<cfg, loop2, done, conn, pool, pools, badChannels, conns, chans, loop, warm, stop, crashed, ncalls>>

\* an Acquire that takes every connection for closed: it sleeps and retries
AcquireReadConn_NeverOpens(c) ==
    /\ Alive
    /\ pub[c].pc = "acqConn"
    /\ pub' = [pub EXCEPT ![c] = [@ EXCEPT !.pc = "acqRecv", !.p = pool]]
    /\ UNCHANGED <<cfg, loop2, mu, badChanMu, done, conn, pool, pools, badChannels, conns, chans, loop, warm, stop, crashed, ncalls>>

\* AcquireReadConn with its Lock and Unlock taken within the step
AcquireReadConn(c) ==
    AcquireReadConnSection(c) /\ UNCHANGED <<mu, badChanMu>>

\* an Acquire that opens a channel only while fewer than MaxChannelPool
\* channels are out of the pool, and waits otherwise
AcquireOpenOk_Capped(c) ==
    /\ Alive
    /\ pub[c].pc = "acqOpen"
    /\ conns[pub[c].lc] = "open"
    /\ FreeChanIds # {}
    /\ Cardinality({d \in Callers : pub[d].pc = "pub"}) < cfg.MaxChannelPool
    /\ LET n == Min(FreeChanIds) IN
        /\ chans' = [chans EXCEPT ![n] = NewChan(pub[c].lc)]
        /\ pub' = [pub EXCEPT ![c] = AcquireOk(@, n)]
    /\ UNCHANGED <<cfg, loop2, mu, badChanMu, done, conn, pool, pools, badChannels, conns, loop, warm, stop, crashed, ncalls>>

\* conn.Channel(), QueueDeclare, NotifyClose, go handleChannelClose succeed
AcquireOpenOk(c) ==
    /\ Alive
    /\ pub[c].pc = "acqOpen"
    /\ conns[pub[c].lc] = "open"
    /\ FreeChanIds # {}
    /\ LET n == Min(FreeChanIds) IN
        /\ chans' = [chans EXCEPT ![n] = NewChan(pub[c].lc)]
        /\ pub' = [pub EXCEPT ![c] = AcquireOk(@, n)]
    /\ UNCHANGED <<cfg, loop2, mu, badChanMu, done, conn, pool, pools, badChannels, conns, loop, warm, stop, crashed, ncalls>>

\* QueueDeclare fails: ch.Close(); return nil, err
\* a failed declaration after which the channel is returned all the same
AcquireDeclareFail_ReturnsChannel(c) ==
    /\ Alive
    /\ pub[c].pc = "acqOpen"
    /\ conns[pub[c].lc] = "open"
    /\ FreeChanIds # {}
    /\ LET n == Min(FreeChanIds) IN
        /\ chans' = [chans EXCEPT ![n] = [NewChan(pub[c].lc) EXCEPT !.notify = "none"]]
        /\ pub' = [pub EXCEPT ![c] = AcquireOk(@, n)]
    /\ UNCHANGED <<cfg, loop2, mu, badChanMu, done, conn, pool, pools, badChannels, conns, loop, warm, stop, crashed, ncalls>>

AcquireDeclareFail(c) ==
    /\ Alive
    /\ pub[c].pc = "acqOpen"
    /\ conns[pub[c].lc] = "open"
    /\ FreeChanIds # {}
    /\ chans' = [chans EXCEPT ![Min(FreeChanIds)] = DeadChan(pub[c].lc)]
    /\ pub' = [pub EXCEPT ![c] = AcquireErr(@)]
    /\ UNCHANGED <<cfg, loop2, mu, badChanMu, done, conn, pool, pools, badChannels, conns, loop, warm, stop, crashed, ncalls>>

\* conn.Channel() fails: on a closed connection with amqp.ErrClosed, which
\* handleConnectionError acts on; on an open one with another error
\* a failed open that forces a reconnect whatever the error is
AcquireOpenFail_AlwaysForces(c) ==
    /\ Alive
    /\ pub[c].pc = "acqOpen"
    /\ pub' = [pub EXCEPT ![c].pc = "acqHce"]
    /\ UNCHANGED <<cfg, loop2, mu, badChanMu, done, conn, pool, pools, badChannels, conns, chans, loop, warm, stop, crashed, ncalls>>

AcquireOpenFail(c) ==
    /\ Alive
    /\ pub[c].pc = "acqOpen"
    /\ pub' = [pub EXCEPT ![c] = IF ConnIsClosed(@.lc) THEN [@ EXCEPT !.pc = "acqHce"]
                                 ELSE AcquireErr(@)]
    /\ UNCHANGED <<cfg, loop2, mu, badChanMu, done, conn, pool, pools, badChannels, conns, chans, loop, warm, stop, crashed, ncalls>>

\* handleConnectionError: r.mu.Lock(); if r.conn != nil { r.conn.Close() }
handleConnectionErrorSection(c) ==
    /\ Alive
    /\ pub[c].pc = "acqHce"
    /\ conns' = ConnsAfterConnClose(conn)
    /\ chans' = ChansAfterConnClose(chans, conn)
    /\ pub' = [pub EXCEPT ![c] = AcquireErr(@)]
    /\ UNCHANGED <<cfg, loop2, done, conn, pool, pools, badChannels, loop, warm, stop, crashed, ncalls>>

\* handleConnectionError with its Lock and Unlock taken within the step
handleConnectionError(c) ==
    handleConnectionErrorSection(c) /\ UNCHANGED <<mu, badChanMu>>

\* ch.Publish on a nil channel: nil dereference
PublishNil(c) ==
    /\ Alive
    /\ pub[c].pc = "pub"
    /\ pub[c].ch = 0
    /\ pub' = [pub EXCEPT ![c] = BeginRelease([@ EXCEPT !.attempts = @ + 1], @.defCh, "endpanic")]
    /\ UNCHANGED <<cfg, loop2, mu, badChanMu, done, conn, pool, pools, badChannels, conns, chans, loop, warm, stop, crashed, ncalls>>

\* ch.Publish succeeds: return nil, the deferred Release runs
PublishOk(c) ==
    /\ Alive
    /\ pub[c].pc = "pub"
    /\ pub[c].ch # 0
    /\ chans[pub[c].ch].state = "open"
    /\ pub' = [pub EXCEPT ![c] = BeginRelease([@ EXCEPT !.attempts = @ + 1], @.defCh, "endok")]
    /\ UNCHANGED <<cfg, loop2, mu, badChanMu, done, conn, pool, pools, badChannels, conns, chans, loop, warm, stop, crashed, ncalls>>

\* ch.Publish fails, with a bound that lets one more attempt through
PublishFail_OffByOne(c) ==
    /\ Alive
    /\ pub[c].pc = "pub"
    /\ pub[c].ch # 0
    /\ pub' = [pub EXCEPT ![c] =
                 IF @.attempt = maxPublishAttempts + 1
                 THEN BeginRelease([@ EXCEPT !.attempts = @ + 1, !.reported = pub[c].attempt],
                                   @.defCh, "enderr")
                 ELSE BeginRelease([@ EXCEPT !.attempts = @ + 1], @.ch, "retry")]
    /\ UNCHANGED <<cfg, loop2, mu, badChanMu, done, conn, pool, pools, badChannels, conns, chans, loop, warm, stop, crashed, ncalls>>

\* ch.Publish fails: at maxPublishAttempts return the error "failed to
\* publish after %d attempts" with attempt, else Release(ch) and retry
PublishFail(c) ==
    /\ Alive
    /\ pub[c].pc = "pub"
    /\ pub[c].ch # 0
    /\ pub' = [pub EXCEPT ![c] =
                 IF @.attempt = maxPublishAttempts
                 THEN BeginRelease([@ EXCEPT !.attempts = @ + 1, !.reported = pub[c].attempt],
                                   @.defCh, "enderr")
                 ELSE BeginRelease([@ EXCEPT !.attempts = @ + 1], @.ch, "retry")]
    /\ UNCHANGED <<cfg, loop2, mu, badChanMu, done, conn, pool, pools, badChannels, conns, chans, loop, warm, stop, crashed, ncalls>>

\* Release: the check against badChannels; then the select evaluates r.pool
ReleaseCheckBadSection(c) ==
    /\ Alive
    /\ pub[c].pc = "relBad"
    /\ LET x == pub[c].arg IN
        IF x \in badChannels
        THEN /\ badChannels' = badChannels \ {x}
             /\ chans' = CloseChans(chans, {x})
             /\ pub' = [pub EXCEPT ![c] = ReleaseReturn(@)]
        ELSE /\ pub' = [pub EXCEPT ![c].pc = "relSend", ![c].p = pool]
             /\ UNCHANGED <<badChannels, chans, ncalls>>
    /\ UNCHANGED <<cfg, loop2, done, conn, pool, pools, conns, loop, warm, stop, crashed, ncalls>>

\* ReleaseCheckBad with its Lock and Unlock taken within the step
ReleaseCheckBad(c) ==
    ReleaseCheckBadSection(c) /\ UNCHANGED <<mu, badChanMu>>

\* a Release whose send has no default branch: it waits while the pool is full
ReleaseSend_Blocking(c) ==
    /\ Alive
    /\ pub[c].pc = "relSend"
    /\ ~pools[pub[c].p].closed
    /\ Len(pools[pub[c].p].buf) < pools[pub[c].p].cap
    /\ pools' = [pools EXCEPT ![pub[c].p].buf = Append(@, pub[c].arg)]
    /\ pub' = [pub EXCEPT ![c] = ReleaseReturn(@)]
    /\ UNCHANGED <<cfg, loop2, mu, badChanMu, done, conn, pool, badChannels, conns, chans, loop, warm, stop,
                   crashed, ncalls>>

\* select { case r.pool <- ch: default: ch.Close() }
ReleaseSend(c) ==
    /\ Alive
    /\ pub[c].pc = "relSend"
    /\ LET r == pub[c]
           q == pools[r.p]
           x == r.arg
       IN
        IF q.closed
        THEN \* send on a closed channel
             /\ pub' = [pub EXCEPT ![c] = ReleasePanic(r)]
             /\ UNCHANGED <<pools, chans, ncalls>>
        ELSE IF Len(q.buf) < q.cap
        THEN /\ pools' = [pools EXCEPT ![r.p].buf = Append(@, x)]
             /\ pub' = [pub EXCEPT ![c] = ReleaseReturn(r)]
             /\ chans' = chans
        ELSE /\ pools' = pools
             /\ chans' = CloseChans(chans, {x} \ {0})
             /\ pub' = [pub EXCEPT ![c] = IF x = 0 THEN ReleasePanic(r) ELSE ReleaseReturn(r)]
    /\ UNCHANGED <<cfg, loop2, mu, badChanMu, done, conn, pool, badChannels, conns, loop, warm, stop, crashed, ncalls>>

\* ------------------------------------------------------------------------
Next ==
    \/ Start
    \/ LoopCheckDone
    \/ LoopDialOk
    \/ LoopDialFail
    \/ LoopSleep
    \/ LoopSwap
    \/ LoopTeardown
    \/ LoopWaitClosed
    \/ LoopWaitDone
    \/ \E s \in Stoppers : StopCloseDone(s)
    \/ \E s \in Stoppers : StopLocked(s)
    \/ \E k \in ConnIds : ConnLost(k)
    \/ \E x \in ChanIds : BrokerCloseChan(x)
    \/ \E x \in ChanIds : handleChannelClose(x)
    \/ \E k \in ConnIds : WarmOpenOk(k)
    \/ \E k \in ConnIds : WarmOpenFail(k)
    \/ \E k \in ConnIds : WarmDeclareFail(k)
    \/ \E k \in ConnIds : WarmPush(k)
    \/ \E c \in Callers : PublishWithRetry(c)
    \/ \E c \in Callers : AcquireRecv(c)
    \/ \E c \in Callers : AcquireReadConn(c)
    \/ \E c \in Callers : AcquireOpenOk(c)
    \/ \E c \in Callers : AcquireDeclareFail(c)
    \/ \E c \in Callers : AcquireOpenFail(c)
    \/ \E c \in Callers : handleConnectionError(c)
    \/ \E c \in Callers : PublishNil(c)
    \/ \E c \in Callers : PublishOk(c)
    \/ \E c \in Callers : PublishFail(c)
    \/ \E c \in Callers : ReleaseCheckBad(c)
    \/ \E c \in Callers : ReleaseSend(c)

Spec == Init /\ [][Next]_vars

\* ------------------------------------------------------------------------
\* Publishing against a broker that stays up: the loop connects once, no
\* Stop, no dial failure, no connection loss.
PublishNext ==
    \/ Start
    \/ LoopCheckDone
    \/ LoopDialOk
    \/ LoopSwap
    \/ LoopTeardown
    \/ \E x \in ChanIds : BrokerCloseChan(x)
    \/ \E x \in ChanIds : handleChannelClose(x)
    \/ \E k \in ConnIds : WarmOpenOk(k)
    \/ \E k \in ConnIds : WarmOpenFail(k)
    \/ \E k \in ConnIds : WarmPush(k)
    \/ \E c \in Callers : PublishWithRetry(c)
    \/ \E c \in Callers : AcquireRecv(c)
    \/ \E c \in Callers : AcquireReadConn(c)
    \/ \E c \in Callers : AcquireOpenOk(c)
    \/ \E c \in Callers : AcquireDeclareFail(c)
    \/ \E c \in Callers : AcquireOpenFail(c)
    \/ \E c \in Callers : PublishNil(c)
    \/ \E c \in Callers : PublishOk(c)
    \/ \E c \in Callers : PublishFail(c)
    \/ \E c \in Callers : ReleaseCheckBad(c)
    \/ \E c \in Callers : ReleaseSend(c)

PublishSpec == Init /\ [][PublishNext]_vars

\* ------------------------------------------------------------------------
\* Publishing against a broker that stays up, with a manager configured for
\* a pool of WidePool channels.
WidePool == 2

WidePoolSpec == NewRabbitManager(WidePool) /\ [][PublishNext]_vars

\* ------------------------------------------------------------------------
\* The supervisor: Start, Stop, dial failures, connection loss, warm-up, and
\* one caller that publishes once.
SupervisorCalls == 1

SinglePublish == ncalls < SupervisorCalls /\ PublishWithRetry(1)

SupervisorNext ==
    \/ Start
    \/ LoopCheckDone
    \/ LoopDialOk
    \/ LoopDialFail
    \/ LoopSleep
    \/ LoopSwap
    \/ LoopTeardown
    \/ LoopWaitClosed
    \/ LoopWaitDone
    \/ \E s \in Stoppers : StopCloseDone(s)
    \/ \E s \in Stoppers : StopLocked(s)
    \/ \E k \in ConnIds : ConnLost(k)
    \/ \E x \in ChanIds : handleChannelClose(x)
    \/ \E k \in ConnIds : WarmOpenOk(k)
    \/ \E k \in ConnIds : WarmOpenFail(k)
    \/ \E k \in ConnIds : WarmPush(k)
    \/ SinglePublish
    \/ AcquireRecv(1)
    \/ AcquireReadConn(1)
    \/ AcquireOpenOk(1)
    \/ AcquireOpenFail(1)
    \/ handleConnectionError(1)
    \/ PublishNil(1)
    \/ PublishOk(1)
    \/ PublishFail(1)
    \/ ReleaseCheckBad(1)
    \/ ReleaseSend(1)

SupervisorSpec == Init /\ [][SupervisorNext]_vars

\* ------------------------------------------------------------------------
\* Start and Stop while no established connection is lost; one caller
\* publishes.
ShutdownNext ==
    \/ Start
    \/ LoopCheckDone
    \/ LoopDialOk
    \/ LoopDialFail
    \/ LoopSleep
    \/ LoopSwap
    \/ LoopTeardown
    \/ LoopWaitClosed
    \/ LoopWaitDone
    \/ \E s \in Stoppers : StopCloseDone(s)
    \/ \E s \in Stoppers : StopLocked(s)
    \/ \E k \in ConnIds : WarmOpenOk(k)
    \/ \E k \in ConnIds : WarmOpenFail(k)
    \/ \E k \in ConnIds : WarmPush(k)
    \/ SinglePublish
    \/ AcquireRecv(1)
    \/ AcquireReadConn(1)
    \/ AcquireOpenOk(1)
    \/ AcquireOpenFail(1)
    \/ handleConnectionError(1)
    \/ PublishNil(1)
    \/ PublishOk(1)
    \/ PublishFail(1)
    \/ ReleaseCheckBad(1)
    \/ ReleaseSend(1)

ShutdownSpec == Init /\ [][ShutdownNext]_vars

\* ------------------------------------------------------------------------
\* A burst of calls against a broker that stays up: the loop connects once,
\* as many calls are made as there are callers, and no publish fails.
BurstPublish(c) == ncalls < NumCallers /\ PublishWithRetry(c)

BurstNext ==
    \/ Start
    \/ LoopCheckDone
    \/ LoopDialOk
    \/ LoopSwap
    \/ LoopTeardown
    \/ \E k \in ConnIds : WarmOpenOk(k)
    \/ \E k \in ConnIds : WarmOpenFail(k)
    \/ \E k \in ConnIds : WarmPush(k)
    \/ \E c \in Callers : BurstPublish(c)
    \/ \E c \in Callers : AcquireRecv(c)
    \/ \E c \in Callers : AcquireReadConn(c)
    \/ \E c \in Callers : AcquireOpenOk(c)
    \/ \E c \in Callers : AcquireOpenFail(c)
    \/ \E c \in Callers : PublishNil(c)
    \/ \E c \in Callers : PublishOk(c)
    \/ \E c \in Callers : ReleaseCheckBad(c)
    \/ \E c \in Callers : ReleaseSend(c)

BurstSpec == Init /\ [][BurstNext]_vars

\* ------------------------------------------------------------------------
\* A caller under fair scheduling, against a broker that keeps the
\* connection up and closes channels: when the caller can take a step of
\* Acquire, Release or PublishWithRetry it eventually takes one.  Nothing is
\* assumed about the other tasks.
CallerStep(c) ==
    \/ AcquireRecv(c)
    \/ AcquireReadConn(c)
    \/ AcquireOpenOk(c)
    \/ AcquireOpenFail(c)
    \/ PublishNil(c)
    \/ PublishOk(c)
    \/ PublishFail(c)
    \/ ReleaseCheckBad(c)
    \/ ReleaseSend(c)

CallerLiveNext ==
    \/ Start
    \/ LoopCheckDone
    \/ LoopDialOk
    \/ LoopSwap
    \/ LoopTeardown
    \/ \E x \in ChanIds : BrokerCloseChan(x)
    \/ \E x \in ChanIds : handleChannelClose(x)
    \/ \E k \in ConnIds : WarmOpenOk(k)
    \/ \E k \in ConnIds : WarmOpenFail(k)
    \/ \E k \in ConnIds : WarmPush(k)
    \/ SinglePublish
    \/ AcquireRecv(1)
    \/ AcquireReadConn(1)
    \/ AcquireOpenOk(1)
    \/ AcquireOpenFail(1)
    \/ PublishNil(1)
    \/ PublishOk(1)
    \/ PublishFail(1)
    \/ ReleaseCheckBad(1)
    \/ ReleaseSend(1)

CallerLiveSpec == Init /\ [][CallerLiveNext]_vars /\ WF_vars(CallerStep(1))

\* ------------------------------------------------------------------------
\* The connections of the manager: the loop with dial failures, Stop,
\* connection loss, and one caller, whose Acquire can force a reconnect.
\* The warm-up tasks and the watchers, which open and close no connection,
\* are left out.
ConnectionNext ==
    \/ Start
    \/ LoopCheckDone
    \/ LoopDialOk
    \/ LoopDialFail
    \/ LoopSleep
    \/ LoopSwap
    \/ LoopTeardown
    \/ LoopWaitClosed
    \/ LoopWaitDone
    \/ \E s \in Stoppers : StopCloseDone(s)
    \/ \E s \in Stoppers : StopLocked(s)
    \/ \E k \in ConnIds : ConnLost(k)
    \/ SinglePublish
    \/ AcquireRecv(1)
    \/ AcquireReadConn(1)
    \/ AcquireOpenOk(1)
    \/ AcquireOpenFail(1)
    \/ handleConnectionError(1)
    \/ PublishNil(1)
    \/ PublishOk(1)
    \/ PublishFail(1)
    \/ ReleaseCheckBad(1)
    \/ ReleaseSend(1)

ConnectionSpec == Init /\ [][ConnectionNext]_vars

\* ------------------------------------------------------------------------
\* Reconnects: the broker accepts ReconnectConns dials, established
\* connections are lost, the manager is never stopped; one caller publishes.
ReconnectConns == 1

ReconnectDialOk == conns[ReconnectConns] = "none" /\ LoopDialOk

ReconnectNext ==
    \/ Start
    \/ LoopCheckDone
    \/ ReconnectDialOk
    \/ LoopSwap
    \/ LoopTeardown
    \/ LoopWaitClosed
    \/ \E k \in ConnIds : ConnLost(k)
    \/ \E x \in ChanIds : handleChannelClose(x)
    \/ \E k \in ConnIds : WarmOpenOk(k)
    \/ \E k \in ConnIds : WarmOpenFail(k)
    \/ \E k \in ConnIds : WarmPush(k)
    \/ SinglePublish
    \/ AcquireRecv(1)
    \/ AcquireReadConn(1)
    \/ AcquireOpenOk(1)
    \/ AcquireOpenFail(1)
    \/ handleConnectionError(1)
    \/ PublishNil(1)
    \/ PublishOk(1)
    \/ PublishFail(1)
    \/ ReleaseCheckBad(1)
    \/ ReleaseSend(1)

ReconnectSpec == Init /\ [][ReconnectNext]_vars

\* ------------------------------------------------------------------------
\* The tasks of the manager under fair scheduling: the loop, Stop, the
\* warm-up tasks, the watchers and the broker.  The loop is a goroutine: the
\* scheduler lets it take its next step, and every dial and every sleep
\* returns.  The broker accepts LiveConns dials and refuses the later ones.
\* Publishers are left out: the loop waits for none of them, and each
\* section they run under r.mu ends without blocking.
LiveConns == 2

LiveDialOk == conns[LiveConns] = "none" /\ LoopDialOk

LoopStep ==
    \/ LoopCheckDone
    \/ LiveDialOk
    \/ LoopDialFail
    \/ LoopSleep
    \/ LoopSwap
    \/ LoopTeardown
    \/ LoopWaitClosed
    \/ LoopWaitDone

SupervisorLiveNext ==
    \/ Start
    \/ LoopCheckDone
    \/ LiveDialOk
    \/ LoopDialFail
    \/ LoopSleep
    \/ LoopSwap
    \/ LoopTeardown
    \/ LoopWaitClosed
    \/ LoopWaitDone
    \/ \E s \in Stoppers : StopCloseDone(s)
    \/ \E s \in Stoppers : StopLocked(s)
    \/ \E k \in ConnIds : ConnLost(k)
    \/ \E x \in ChanIds : handleChannelClose(x)
    \/ \E k \in ConnIds : WarmOpenOk(k)
    \/ \E k \in ConnIds : WarmOpenFail(k)
    \/ \E k \in ConnIds : WarmPush(k)

SupervisorLiveSpec == Init /\ [][SupervisorLiveNext]_vars /\ WF_vars(LoopStep)

\* ------------------------------------------------------------------------
\* Forced reconnects under fair scheduling of the loop: the broker drops the
\* first connection only, so every later connection that closes while the
\* manager is not stopped was closed by handleConnectionError.  One caller
\* publishes; the manager is never stopped.
FirstConnLost == ConnLost(1)

ForcedNext ==
    \/ Start
    \/ LoopCheckDone
    \/ LiveDialOk
    \/ LoopDialFail
    \/ LoopSleep
    \/ LoopSwap
    \/ LoopTeardown
    \/ LoopWaitClosed
    \/ FirstConnLost
    \/ \E k \in ConnIds : WarmOpenOk(k)
    \/ \E k \in ConnIds : WarmOpenFail(k)
    \/ \E k \in ConnIds : WarmPush(k)
    \/ SinglePublish
    \/ AcquireRecv(1)
    \/ AcquireReadConn(1)
    \/ AcquireOpenOk(1)
    \/ AcquireOpenFail(1)
    \/ handleConnectionError(1)
    \/ PublishNil(1)
    \/ PublishOk(1)
    \/ PublishFail(1)
    \/ ReleaseCheckBad(1)
    \/ ReleaseSend(1)

ForcedSpec == Init /\ [][ForcedNext]_vars /\ WF_vars(LoopStep)

\* ------------------------------------------------------------------------
\* The two locks.  In the specifications above every section under r.mu or
\* r.badChanMu is one step.  Here Lock is a step of its own: a task takes
\* the lock when it is free, and runs the section and Unlock in its next
\* step.  The receive of Acquire's select waits for nothing and is taken
\* together with the section under r.badChanMu that follows it.

PubTask(c) == <<"pub", c>>
StopTask(s) == <<"stop", s>>
LoopTask == <<"loop", 0>>
WatchTask(x) == <<"watch", x>>

Tasks ==
    {PubTask(c) : c \in Callers} \cup {StopTask(s) : s \in Stoppers}
        \cup {LoopTask} \cup {WatchTask(x) : x \in ChanIds}

\* the locks task t holds
Holds(t) ==
    (IF mu.w = t \/ t \in mu.r THEN {"mu"} ELSE {})
        \cup (IF badChanMu = t THEN {"badChanMu"} ELSE {})

\* the next statement of task t is r.mu.Lock()
WantsMu(t) ==
    \/ \E s \in Stoppers : t = StopTask(s) /\ stop[s].pc = "closedDone"
    \/ \E c \in Callers : t = PubTask(c) /\ pub[c].pc = "acqHce"
    \/ t = LoopTask /\ loop.pc = "swap"

\* the next statement of task t is r.mu.RLock()
WantsMuRead(t) == \E c \in Callers : t = PubTask(c) /\ pub[c].pc = "acqConn"

\* the next statement of task t is r.badChanMu.Lock(): Release at its
\* start, Acquire when its receive gets a value (or the zero value of a
\* closed pool), a watcher when its notification has delivered an error
WantsBadChanMu(t) ==
    \/ \E c \in Callers : t = PubTask(c) /\ pub[c].pc = "relBad"
    \/ \E c \in Callers :
          /\ t = PubTask(c)
          /\ pub[c].pc = "acqRecv"
          /\ (pools[pub[c].p].buf # <<>> \/ pools[pub[c].p].closed)
    \/ \E x \in ChanIds : t = WatchTask(x) /\ chans[x].notify = "fired"

\* r.mu.Lock()
MuLock(t) ==
    /\ Alive
    /\ WantsMu(t)
    /\ mu.w = NoTask
    /\ mu.r = {}
    /\ mu' = [mu EXCEPT !.w = t]
    /\ UNCHANGED <<cfg, loop2, badChanMu, done, conn, pool, pools, badChannels, conns, chans,
                   loop, warm, pub, stop, ncalls, crashed>>

\* r.mu.RLock()
MuRLock(t) ==
    /\ Alive
    /\ WantsMuRead(t)
    /\ mu.w = NoTask
    /\ t \notin mu.r
    /\ mu' = [mu EXCEPT !.r = @ \cup {t}]
    /\ UNCHANGED <<cfg, loop2, badChanMu, done, conn, pool, pools, badChannels, conns, chans,
                   loop, warm, pub, stop, ncalls, crashed>>

\* a Lock of r.badChanMu that Stop also takes, inside its section under r.mu
BadChanMuLock_InsideStop(t) ==
    /\ Alive
    /\ WantsBadChanMu(t) \/ (mu.w = t /\ \E s \in Stoppers : t = StopTask(s))
    /\ badChanMu = NoTask
    /\ badChanMu' = t
    /\ UNCHANGED <<cfg, loop2, mu, done, conn, pool, pools, badChannels, conns, chans,
                   loop, warm, pub, stop, ncalls, crashed>>

\* r.badChanMu.Lock()
BadChanMuLock(t) ==
    /\ Alive
    /\ WantsBadChanMu(t)
    /\ badChanMu = NoTask
    /\ badChanMu' = t
    /\ UNCHANGED <<cfg, loop2, mu, done, conn, pool, pools, badChannels, conns, chans,
                   loop, warm, pub, stop, ncalls, crashed>>

\* Stop: the section under r.mu and r.mu.Unlock(); a panic in the section
\* leaves the lock held
StopUnlock(s) ==
    /\ mu.w = StopTask(s)
    /\ StopLockedSection(s)
    /\ mu' = IF crashed' THEN mu ELSE [mu EXCEPT !.w = NoTask]
    /\ UNCHANGED badChanMu

\* handleConnectionError: the section under r.mu and r.mu.Unlock()
handleConnectionErrorUnlock(c) ==
    /\ mu.w = PubTask(c)
    /\ handleConnectionErrorSection(c)
    /\ mu' = [mu EXCEPT !.w = NoTask]
    /\ UNCHANGED badChanMu

\* reconnectLoop: the swap under r.mu and r.mu.Unlock()
LoopSwapUnlock ==
    /\ mu.w = LoopTask
    /\ LoopSwapSection
    /\ mu' = [mu EXCEPT !.w = NoTask]
    /\ UNCHANGED badChanMu

\* Acquire: conn := r.conn and r.mu.RUnlock()
AcquireReadConnRUnlock(c) ==
    /\ PubTask(c) \in mu.r
    /\ AcquireReadConnSection(c)
    /\ mu' = [mu EXCEPT !.r = @ \ {PubTask(c)}]
    /\ UNCHANGED badChanMu

\* Acquire: the check of the received channel under r.badChanMu and Unlock
AcquireRecvUnlock(c) ==
    /\ badChanMu = PubTask(c)
    /\ AcquireRecvSection(c)
    /\ badChanMu' = NoTask
    /\ UNCHANGED mu

\* Acquire: the default branch of the select, which takes no lock
AcquireRecvDefault(c) ==
    /\ badChanMu # PubTask(c)
    /\ pools[pub[c].p].buf = <<>>
    /\ ~pools[pub[c].p].closed
    /\ AcquireRecvSection(c)
    /\ UNCHANGED <<mu, badChanMu>>

\* Release: the check under r.badChanMu and Unlock
ReleaseCheckBadUnlock(c) ==
    /\ badChanMu = PubTask(c)
    /\ ReleaseCheckBadSection(c)
    /\ badChanMu' = NoTask
    /\ UNCHANGED mu

\* handleChannelClose: the insertion under r.badChanMu and Unlock
handleChannelCloseUnlock(x) ==
    /\ badChanMu = WatchTask(x)
    /\ handleChannelCloseSection(x)
    /\ badChanMu' = NoTask
    /\ UNCHANGED mu

\* the step with which task t leaves the section it is in
Unlocks(t) ==
    \/ \E s \in Stoppers : t = StopTask(s) /\ StopUnlock(s)
    \/ \E c \in Callers : t = PubTask(c) /\ handleConnectionErrorUnlock(c)
    \/ t = LoopTask /\ LoopSwapUnlock
    \/ \E c \in Callers : t = PubTask(c) /\ AcquireReadConnRUnlock(c)
    \/ \E c \in Callers : t = PubTask(c) /\ AcquireRecvUnlock(c)
    \/ \E c \in Callers : t = PubTask(c) /\ ReleaseCheckBadUnlock(c)
    \/ \E x \in ChanIds : t = WatchTask(x) /\ handleChannelCloseUnlock(x)

\* Start, Stop, connection loss, watchers and one caller that publishes,
\* with the locks taken step by step.
LockNext ==
    \/ Start
    \/ LoopCheckDone
    \/ LoopDialOk
    \/ LoopSwapUnlock
    \/ LoopTeardown
    \/ LoopWaitClosed
    \/ LoopWaitDone
    \/ \E s \in Stoppers : StopCloseDone(s)
    \/ \E s \in Stoppers : StopUnlock(s)
    \/ \E k \in ConnIds : ConnLost(k)
    \/ \E t \in Tasks : MuLock(t)
    \/ \E t \in Tasks : MuRLock(t)
    \/ \E t \in Tasks : BadChanMuLock(t)
    \/ \E x \in ChanIds : handleChannelCloseUnlock(x)
    \/ SinglePublish
    \/ AcquireRecvUnlock(1)
    \/ AcquireRecvDefault(1)
    \/ AcquireReadConnRUnlock(1)
    \/ AcquireOpenOk(1)
    \/ AcquireOpenFail(1)
    \/ handleConnectionErrorUnlock(1)
    \/ PublishNil(1)
    \/ PublishOk(1)
    \/ PublishFail(1)
    \/ ReleaseCheckBadUnlock(1)
    \/ ReleaseSend(1)

LockSpec == Init /\ [][LockNext]_vars

\* One caller, one loss of the first connection, and warm-up, where every
\* queue declaration may fail.
DeclareNext ==
    \/ ForcedNext
    \/ AcquireDeclareFail(1)
    \/ \E k \in ConnIds : WarmDeclareFail(k)

DeclareSpec == Init /\ [][DeclareNext]_vars

\* The watchers under fair scheduling, against a broker that keeps the
\* connection up and closes channels: a watcher whose notification has
\* delivered an error eventually runs.
WatcherSpec ==
    Init /\ [][CallerLiveNext]_vars /\ \A x \in ChanIds : WF_vars(handleChannelClose(x))

\* Start called twice against a broker that accepts every dial: the two
\* loops, the warm-up tasks, and the loss of a connection.
TwoStartsNext ==
    \/ Start
    \/ StartAgain
    \/ LoopCheckDone
    \/ LoopDialOk
    \/ LoopSwap
    \/ LoopTeardown
    \/ LoopWaitClosed
    \/ SecondLoopCheckDone
    \/ SecondLoopDialOk
    \/ SecondLoopSwap
    \/ SecondLoopTeardown
    \/ SecondLoopWaitClosed
    \/ \E k \in ConnIds : ConnLost(k)
    \/ \E k \in ConnIds : WarmOpenOk(k)
    \/ \E k \in ConnIds : WarmOpenFail(k)
    \/ \E k \in ConnIds : WarmPush(k)

TwoStartsSpec == Init /\ [][TwoStartsNext]_vars

\* The backoff of the loop until its first connection, against a broker
\* that may refuse any dial, with the duration of each sleep kept.
BackoffNext ==
    \/ Start
    \/ LoopCheckDone
    \/ LoopDialOk
    \/ LoopDialFail
    \/ \E n \in 0 .. RngBound - 1 : LoopSleepTimed(n)
    \/ LoopSwap
    \/ LoopTeardown

BackoffSpec == Init /\ [][BackoffNext]_vars

\* ========================================================================
\* Properties

Count(s, x) == Cardinality({i \in 1..Len(s) : s[i] = x})

\* the channels caller c holds: returned to it by Acquire and not yet
\* passed to Release
Leased(c) == {x \in ChanIds : Count(pub[c].got, x) > Count(pub[c].rel, x)}

\* C1: no two callers hold the same channel at the same time.
C1_NoDoubleLease ==
    \A c \in Callers : \A d \in Callers :
        c # d => Leased(c) \cap Leased(d) = {}

\* caller c is in the Release deferred by PublishWithRetry, on its way out
Exiting(c) == pub[c].aft \in {"endok", "enderr"}

\* C2: when PublishWithRetry returns, every channel it acquired has been
\* passed to Release exactly once.
C2_ReleasedExactlyOnce ==
    \A c \in Callers :
        Exiting(c) => \A x \in ChanIds : Count(pub[c].rel, x) = Count(pub[c].got, x)

\* C3: the second publish attempt is made after the first channel was
\* released and on a channel other than the first attempt's.
C3_RetryOnOtherChannel ==
    \A c \in Callers :
        (pub[c].pc = "pub" /\ pub[c].attempt = 2) =>
            /\ pub[c].rel = <<pub[c].defCh>>
            /\ pub[c].ch # pub[c].defCh

InAcquire(r) == r.pc \in {"acqRecv", "acqConn", "acqOpen", "acqHce"}

\* C4: an Acquire never returns a channel whose close notification had
\* fired before that Acquire began.
C4_BadChannelExclusion ==
    [][\A c \in Callers :
         (InAcquire(pub[c]) /\ pub'[c].pc = "pub") =>
             pub'[c].ch \notin pub[c].firedAtAcq]_vars

\* C5: a Stop called after another Stop has completed does not panic.
C5_SecondStopDoesNotPanic ==
    \A s \in Stoppers : stop[s].after => stop[s].pc # "panicked"

StopCompleted == \E s \in Stoppers : stop[s].pc = "done"
LoopFinished == loop.pc \in {"exit", "panicked"}
OpenInPool(q) == \E i \in 1..Len(pools[q].buf) :
                    pools[q].buf[i] # 0 /\ chans[pools[q].buf[i]].state = "open"

\* C6: once Stop has completed and the reconnect loop has finished, the
\* installed connection is not open and no pool holds an open channel.
C6_NothingOpenAfterStop ==
    (StopCompleted /\ LoopFinished) =>
        /\ conn = 0 \/ conns[conn] # "open"
        /\ \A q \in PoolIds : ~OpenInPool(q)

\* the loop has returned, or the process that ran it is down
LoopTerminated == loop.pc = "exit" \/ crashed

\* C7: once Stop has closed the done signal, the started reconnect loop
\* eventually terminates, and a loop that has returned on the stop signal
\* takes no further step (no further dial).
C7_LoopTerminatesAfterStop ==
    /\ (done /\ loop.pc # "notstarted") ~> LoopTerminated
    /\ [][loop.pc = "exit" => loop' = loop]_vars

\* a loop that dialed, was stopped and returned, in a live process
C7_Witness == done /\ loop.pc = "exit" /\ loop.dials = 1 /\ ~crashed

\* C8: a Stop called before Start does not panic, and the loop started
\* afterwards returns without dialing: no connection and no channel is
\* ever opened.
C8_StopBeforeStart ==
    /\ loop.pc = "notstarted" => stop[1].pc # "panicked"
    /\ loop.afterStop =>
        /\ stop[1].pc # "panicked"
        /\ loop.pc \in {"check", "exit"}
        /\ loop.dials = 0
        /\ \A k \in ConnIds : conns[k] = "none"
        /\ \A x \in ChanIds : chans[x].state = "none"

\* Stop ran to completion, then Start: the loop has returned
C8_Witness == loop.afterStop /\ loop.pc = "exit" /\ stop[1].pc = "done"

\* C9: no core task (reconnect loop, warm-up, Acquire, Release,
\* PublishWithRetry) ends in a panic that leaves the task.
C9_NoEscapingPanic ==
    /\ loop.pc # "panicked"
    /\ \A k \in ConnIds : warm[k].pc # "panicked"
    /\ \A c \in Callers : pub[c].result # "panic"

\* C10: the base delay of a backoff sleep never exceeds BackoffMax.
C10_BackoffWithinMax == loop.pc = "sleep" => loop.backoff <= BackoffMax

\* C11: the base delays of consecutive dial failures start at the floor and
\* never decrease: each sleep either doubles the base delay or, at or above
\* BackoffMax, keeps it; a successful dial puts it back to the floor, so
\* that the next failure sleeps the floor again; no other step changes it.
C11_BackoffMonotonicAndResets ==
    [][/\ (loop.pc = "notstarted" /\ loop'.pc = "check") =>
            loop'.backoff = BackoffFloor
       /\ (loop.pc = "dial" /\ loop'.pc = "swap") =>
            loop'.backoff = BackoffFloor
       /\ (loop.pc = "sleep" /\ loop'.pc = "check") =>
            /\ loop'.backoff >= loop.backoff
            /\ loop'.backoff =
                 IF loop.backoff < BackoffMax THEN 2 * loop.backoff ELSE loop.backoff
       /\ (loop.pc \notin {"notstarted", "dial", "sleep"} \/ loop'.pc = "sleep") =>
            loop'.backoff = loop.backoff]_vars

\* a dial fails after a connection had been established and lost: the loop
\* sleeps the floor delay
C11_Witness ==
    /\ loop.pc = "sleep"
    /\ loop.backoff = BackoffFloor
    /\ conns[1] = "closed"

ReleasedWhileFired(c) ==
    IF /\ InAcquire(pub[c]) /\ pub[c].phase = "retry" /\ pub[c].rel # <<>>
       /\ pub[c].rel[Len(pub[c].rel)] \in pub[c].firedAtAcq
    THEN {pub[c].rel[Len(pub[c].rel)]}
    ELSE {}

InSomePool(x) == \E q \in PoolIds : x \in Range(pools[q].buf)

\* C13: when Release(ch) has run while the watcher of ch was about to mark
\* ch bad, then once Release has returned and the watcher has marked, ch is
\* in no pool (Release has closed it instead of pooling it).
C13_ReleaseRacingWatcher ==
    \A c \in Callers : \A x \in ReleasedWhileFired(c) :
        chans[x].notify = "marked" => ~InSomePool(x)

\* C14: no pool, the active one included, ever holds more than
\* MaxChannelPool channels.
C14_PoolWithinCapacity ==
    \A q \in PoolIds : Len(pools[q].buf) <= cfg.MaxChannelPool

\* a Release is about to push into the active pool of a connection, which
\* is full
C14_Witness ==
    /\ pool # 0
    /\ Len(pools[pool].buf) = cfg.MaxChannelPool
    /\ pub[1].pc = "relSend"
    /\ pub[1].p = pool

\* channel x was found in the bad-channel set by Acquire or by Release:
\* its watcher has marked it and the mark has been taken out again
Discarded(x) == chans[x].notify = "marked" /\ x \notin badChannels

\* C15: a channel that Acquire or Release has found in the bad-channel set
\* (and so removed from the set and closed) is closed, is in no pool and is
\* not the channel of any publish attempt: it never returns to service.
C15_DiscardedStaysOut ==
    \A x \in ChanIds :
        Discarded(x) =>
            /\ chans[x].state = "closed"
            /\ ~InSomePool(x)
            /\ \A c \in Callers : ~(pub[c].pc = "pub" /\ pub[c].ch = x)

\* caller c takes the send step of Release(x), x not nil, on an open pool
ReleaseSends(c) ==
    /\ pub[c].pc = "relSend"
    /\ pub'[c] # pub[c]
    /\ pub[c].arg # 0
    /\ ~pools[pub[c].p].closed

\* C16: a Release of a channel that is not in the bad-channel set can always
\* take its next step (it waits for nothing); on a pool with room it appends
\* the channel to the pool and leaves the channel as it is; on a full pool it
\* closes the channel and leaves the pool as it is.
C16_ReleaseNonBlocking ==
    /\ [](\A c \in Callers :
            /\ (Alive /\ pub[c].pc = "relBad") => ENABLED ReleaseCheckBad(c)
            /\ (Alive /\ pub[c].pc = "relSend") => ENABLED ReleaseSend(c))
    /\ [][\A c \in Callers :
            ReleaseSends(c) =>
                LET q == pub[c].p
                    x == pub[c].arg
                IN IF Len(pools[q].buf) < cfg.MaxChannelPool
                   THEN /\ pools'[q].buf = Append(pools[q].buf, x)
                        /\ chans'[x] = chans[x]
                   ELSE /\ pools'[q] = pools[q]
                        /\ chans'[x].state = "closed"]_vars

\* a Release has closed an open channel because the pool was full
C16_Witness ==
    /\ pool # 0
    /\ Len(pools[pool].buf) = cfg.MaxChannelPool
    /\ pub[1].result = "ok"
    /\ \E x \in ChanIds : chans[x].notify = "quiet" /\ ~InSomePool(x)

\* caller c takes the receive step of Acquire on a pool whose head is not
\* in the bad-channel set
AcquirePopsGood(c) ==
    /\ pub[c].pc = "acqRecv"
    /\ pub'[c] # pub[c]
    /\ pools[pub[c].p].buf # <<>>
    /\ Head(pools[pub[c].p].buf) \notin badChannels

\* C17: on a non-empty pool whose head is not in the bad-channel set,
\* Acquire returns the head with no error, takes it out of the pool and
\* opens no channel, whatever the state of the connection.
C17_AcquireFromPool ==
    [][\A c \in Callers :
         AcquirePopsGood(c) =>
             LET q == pub[c].p IN
             /\ pub'[c].pc = "pub"
             /\ pub'[c].ch = Head(pools[q].buf)
             /\ pools'[q].buf = Tail(pools[q].buf)
             /\ chans' = chans
             /\ conns' = conns]_vars

\* the first Acquire of a call has returned a pooled channel of a
\* connection that is closed
C17_Witness ==
    /\ pub[1].pc = "pub"
    /\ pub[1].attempt = 1
    /\ pub[1].ch # 0
    /\ conns[chans[pub[1].ch].conn] = "closed"
    /\ chans[pub[1].ch].notify = "fired"

\* the callers that hold a channel from the first Acquire of their call and
\* have passed nothing to Release
FirstHolders == {c \in Callers : /\ pub[c].pc = "pub" /\ pub[c].attempt = 1
                                  /\ pub[c].ch # 0 /\ pub[c].rel = <<>>}

\* C18: an Acquire that has found the pool empty and the connection live
\* waits for no other caller: it can open a channel whenever the connection
\* is open, however many channels are out; the channel it returns is freshly
\* opened on that connection and is held by no other caller and by no pool.
C18_ConcurrentAcquiresOpenFresh ==
    /\ [](\A c \in Callers :
            (Alive /\ pub[c].pc = "acqOpen" /\ conns[pub[c].lc] = "open"
                   /\ FreeChanIds # {}) => ENABLED AcquireOpenOk(c))
    /\ [][\A c \in Callers :
            (pub[c].pc = "acqOpen" /\ pub'[c].pc = "pub") =>
                LET n == pub'[c].ch IN
                /\ chans[n].state = "none"
                /\ chans'[n] = NewChan(pub[c].lc)
                /\ \A q \in PoolIds : n \notin Range(pools'[q].buf)
                /\ \A d \in Callers \ {c} :
                      pub'[d].ch # n /\ n \notin Range(pub'[d].got)]_vars

\* more callers than MaxChannelPool hold channels at once, each from its
\* first Acquire, with no Release so far and the pool empty
C18_Witness ==
    /\ Cardinality(FirstHolders) > cfg.MaxChannelPool
    /\ \A c \in FirstHolders : \A d \in FirstHolders : c # d => pub[c].ch # pub[d].ch
    /\ \A c \in FirstHolders : chans[pub[c].ch].state = "open"
    /\ \A c \in Callers : pub[c].rel = <<>> /\ pub[c].result = "none"
    /\ pool # 0 /\ pools[pool].buf = <<>>

InRelease(r) == r.pc \in {"relBad", "relSend"}

ConnLive == conn # 0 /\ conns[conn] = "open"

\* C19: under fair scheduling of the caller, every Release returns whatever
\* the other tasks do, and every Acquire that runs while a live connection
\* is installed returns.
C19_AcquireReleaseReturn ==
    /\ InRelease(pub[1]) ~> ~InRelease(pub[1])
    /\ (InAcquire(pub[1]) /\ ConnLive) ~> ~InAcquire(pub[1])

\* an Acquire has returned a channel it opened while the pool of the live
\* connection was empty and the warm-up had finished
C19_Witness ==
    /\ ConnLive
    /\ warm[conn].pc = "done"
    /\ pub[1].pc = "pub"
    /\ pub[1].ch # 0
    /\ chans[pub[1].ch].state = "open"
    /\ \A x \in ChanIds \ {pub[1].ch} : chans[x].state = "none"

\* the loop has to dial: a dial has failed, or the connection it waits on
\* is closed
NeedsDial ==
    \/ loop.pc = "sleep"
    \/ loop.pc = "wait" /\ ConnIsClosed(loop.conn)

\* the connection the loop has dialed and its new pool are installed
Connected ==
    /\ loop.pc \in {"teardown", "wait"}
    /\ conn = loop.conn
    /\ pool = loop.conn

\* C20: while Stop has not been called, the loop dials again after every
\* dial failure and every loss of its connection, and every dial the broker
\* accepts leads to the new connection and its new pool being installed.
C20_ReconnectsForever ==
    /\ (~done /\ NeedsDial) ~> (loop.pc = "dial" \/ done)
    /\ (~done /\ loop.pc = "swap") ~> (Connected \/ done)

OpenConns == {k \in ConnIds : conns[k] = "open"}

\* C21: at most one connection dialed by the manager is open at any time.
C21_AtMostOneOpenConnection == Cardinality(OpenConns) <= 1

\* the loop has installed a second connection, which is the only open one,
\* while the caller is about to force a reconnect
C21_Witness ==
    /\ conn = 2
    /\ OpenConns = {2}
    /\ conns[1] = "closed"
    /\ pub[1].pc = "acqHce"

\* the loop has seen the close of the connection it dialed last and has not
\* yet dialed the next one with success
Redialing == loop.conn # 0 /\ loop.pc \in {"check", "dial", "sleep"}

\* C22: once the loop has detected the loss of its connection and is back
\* at dialing, that connection is closed, every channel in the pool made
\* with it is closed, and the active pool holds no channel of that
\* connection.
C22_TeardownBeforeRedial ==
    Redialing =>
        /\ ConnIsClosed(loop.conn)
        /\ \A x \in Range(pools[loop.conn].buf) : x # 0 => chans[x].state = "closed"
        /\ \A x \in Range(pools[pool].buf) : x # 0 => chans[x].conn # loop.conn

\* C23: within one attempt of Acquire, the pool it has tried to pop from
\* and the connection it is about to open a channel on were installed by
\* the same swap (pool k is the pool installed with connection k).
C23_ConsistentConnPoolPair ==
    \A c \in Callers :
        pub[c].pc = "acqOpen" => pub[c].p = pub[c].lc

\* C24: no channel that Acquire has returned without an error is nil.
C24_AcquireNeverNil ==
    \A c \in Callers : 0 \notin Range(pub[c].got)

\* caller c takes the send step of Release
ReleaseSendStep(c) == pub[c].pc = "relSend" /\ pub'[c] # pub[c]

\* C25: the send step of Release never sends into a closed pool, and when
\* it is over the channel passed to Release is in the active pool or closed.
C25_ReleaseNeverLeaks ==
    [][\A c \in Callers :
          (ReleaseSendStep(c) /\ pub[c].arg # 0) =>
              /\ ~pools[pub[c].p].closed
              /\ \/ pub[c].arg \in Range(pools'[pool'].buf)
                 \/ chans'[pub[c].arg].state = "closed"]_vars

\* C26: no channel is in the active pool more than once.
C26_NoDuplicateInPool ==
    \A x \in ChanIds : Count(pools[pool].buf, x) <= 1

\* caller c takes the receive step of Acquire and pops a channel (not nil)
\* from the active pool
AcquirePops(c) ==
    /\ pub[c].pc = "acqRecv"
    /\ pub[c].p = pool
    /\ pools[pool].buf # <<>>
    /\ Head(pools[pool].buf) # 0
    /\ pools'[pool].buf = Tail(pools[pool].buf)

\* C27: a channel that is closed when an Acquire pops it from the active
\* pool is in the bad-channel set at that moment, and the Acquire discards
\* it (takes it out of the set and goes on) instead of returning it.
C27_StalePoolResolvedOnAcquire ==
    [][\A c \in Callers :
          (AcquirePops(c) /\ chans[Head(pools[pool].buf)].state = "closed") =>
              /\ Head(pools[pool].buf) \in badChannels
              /\ pub'[c].pc = "acqRecv"]_vars

\* Acquire of caller c returns a channel (not nil) with no error
AcquireReturns(c) ==
    /\ pub[c].pc \in {"acqRecv", "acqOpen"}
    /\ pub'[c].pc = "pub"
    /\ pub'[c].ch # 0

\* C28: when Acquire returns a channel, the connection of that channel is
\* not closed; while r.conn is nil or closed and the pool is empty, Acquire
\* opens nothing and goes back to the pool.
C28_AcquireOnLiveConnection ==
    [][\A c \in Callers :
          /\ AcquireReturns(c) => conns'[chans'[pub'[c].ch].conn] = "open"
          /\ (pub[c].pc = "acqConn" /\ pub'[c] # pub[c] /\ ~ConnLive) =>
                 (pub'[c].pc = "acqRecv" /\ chans' = chans)]_vars

\* the loop takes its swap step
Swaps == loop.pc = "swap" /\ loop'.pc = "teardown"

\* the loop takes its teardown step and gets through it
TeardownFinishes == loop.pc = "teardown" /\ loop'.pc = "wait"

\* C29: the swap installs a pool that did not exist before, empty, open
\* and of capacity MaxChannelPool; when the teardown step has finished, the
\* previous pool is closed and empty and every channel that was in it is
\* closed, and the previous pool stays closed and empty while the loop
\* waits.
C29_FreshPoolAndDrainedOldPool ==
    [][/\ Swaps =>
             /\ pool' # pool
             /\ ~pools[pool'].made
             /\ pools'[pool'] = [buf |-> <<>>, closed |-> FALSE, made |-> TRUE,
                                 cap |-> cfg.MaxChannelPool]
       /\ TeardownFinishes =>
             \A x \in Range(pools[loop.oldPool].buf) \ {0} : chans'[x].state = "closed"
       /\ loop'.pc = "wait" =>
             /\ pools'[loop'.oldPool].closed
             /\ pools'[loop'.oldPool].buf = <<>>]_vars

\* the teardown after a reconnect has drained the pool of the first
\* connection, which held the channel the caller had released into it
C29_Witness ==
    /\ loop.pc = "wait"
    /\ loop.oldPool = 1
    /\ pool = 2
    /\ pub[1].result = "ok"
    /\ chans[1].conn = 1
    /\ chans[1].state = "closed"
    /\ ~InSomePool(1)

\* the warm-up task of connection k takes its push step
WarmPushStep(k) == warm[k].pc = "push" /\ warm'[k] # warm[k]

\* channels of connection k that are in a pool
PooledOf(k) == {x \in ChanIds : chans[x].conn = k /\ InSomePool(x)}

\* C30: the push step of a warm-up task never sends into a closed pool,
\* and leaves the channel in the pool that is active or closed; no more
\* than MaxChannelPool channels of one connection are in the pools.
C30_WarmUpPush ==
    [][\A k \in ConnIds :
          /\ WarmPushStep(k) =>
                /\ ~pools[warm[k].p].closed
                /\ \/ warm[k].ch \in Range(pools'[pool'].buf)
                   \/ chans'[warm[k].ch].state = "closed"
          /\ Cardinality(PooledOf(k))' <= cfg.MaxChannelPool]_vars

\* channel x is still somewhere a later Acquire or Release can find it: in
\* a pool, in the hands of a caller (its channel, the argument of its
\* running or deferred Release), or in the hands of a warm-up task
InCirculation(x) ==
    \/ InSomePool(x)
    \/ \E c \in Callers :
          pub[c].pc # "idle" /\ x \in {pub[c].ch, pub[c].arg, pub[c].defCh}
    \/ \E k \in ConnIds : warm[k].pc = "push" /\ warm[k].ch = x

\* C31: every identity in the bad-channel set belongs to a channel that is
\* pooled or in the hands of a caller (or of the warm-up task about to pool
\* it), as long as the process is up: the set holds no entry that nothing
\* can take out again.
C31_NoDeadBadEntries ==
    Alive => \A x \in badChannels : InCirculation(x)

\* the loop waits on a connection that handleConnectionError has closed
\* (the broker drops connection 1 only, and Stop was not called)
ForcedClosed ==
    /\ ~done
    /\ loop.pc = "wait"
    /\ loop.conn > 1
    /\ conn = loop.conn
    /\ ConnIsClosed(conn)

\* caller c runs handleConnectionError while r.conn is nil or closed
ForcesAgain(c) ==
    /\ pub[c].pc = "acqHce"
    /\ pub'[c] # pub[c]
    /\ (conn = 0 \/ ConnIsClosed(conn))

\* C32: after handleConnectionError has closed the connection the loop is
\* waiting on, the loop gets back to dialing; handleConnectionError on a
\* connection that is already closed changes nothing but the caller's own
\* position, and does not panic.
C32_ForcedReconnect ==
    /\ ForcedClosed ~> (loop.pc = "dial")
    /\ [][\A c \in Callers :
             ForcesAgain(c) =>
                 /\ UNCHANGED <<cfg, loop2, done, conn, pool, pools, badChannels, conns,
                                chans, loop, warm, stop, crashed>>
                 /\ pub'[c].result # "panic"]_vars

\* the tasks that wait for a lock another task holds
WaitsForLock(t) ==
    \/ (WantsMu(t) /\ mu.w # t /\ (mu.w # NoTask \/ mu.r # {}))
    \/ (WantsMuRead(t) /\ t \notin mu.r /\ mu.w # NoTask)
    \/ (WantsBadChanMu(t) /\ badChanMu \notin {NoTask, t})

\* C33: no task holds r.mu and r.badChanMu at the same time, and while the
\* process is up a task that holds a lock waits for nothing: it can run its
\* section and unlock.  So every task that waits for a lock waits for a
\* task that does not wait.
C33_NoLockNesting ==
    \A t \in Tasks :
        /\ Cardinality(Holds(t)) <= 1
        /\ (Alive /\ Holds(t) # {}) => (~WaitsForLock(t) /\ ENABLED Unlocks(t))

\* Stop holds r.mu while the caller waits for it in handleConnectionError
\* and a watcher holds r.badChanMu
C33_Witness ==
    /\ \E s \in Stoppers : mu.w = StopTask(s)
    /\ pub[1].pc = "acqHce"
    /\ \E x \in ChanIds : badChanMu = WatchTask(x)

\* a step in which QueueDeclare fails on a channel just opened
DeclareFails ==
    \/ \E c \in Callers : AcquireDeclareFail(c)
    \/ \E k \in ConnIds : WarmDeclareFail(k)

\* the channel a step opens
Opened(x) == chans[x].state = "none" /\ chans'[x].state # "none"

\* x is held by a caller or a warm-up task, or pooled, after the step
InCirculationAfter(x) ==
    \/ \E p \in PoolIds : x \in Range(pools'[p].buf)
    \/ \E c \in Callers : x \in {pub'[c].ch, pub'[c].arg, pub'[c].defCh} \cup Range(pub'[c].got)
    \/ \E k \in ConnIds : warm'[k].ch = x

\* C34: when QueueDeclare fails on a channel just opened, in Acquire or in
\* warm-up, the step leaves that channel closed, without a watcher, in no
\* pool and with no caller; Acquire returns the error: a first Acquire
\* ends the call with an error, an Acquire of the retry goes to the
\* deferred Release and then ends with an error.
C34_DeclareFailureClosesChannel ==
    [][DeclareFails =>
         /\ \E x \in ChanIds : Opened(x)
         /\ \A x \in ChanIds : Opened(x) =>
              /\ chans'[x].state = "closed"
              /\ chans'[x].notify = "none"
              /\ ~InCirculationAfter(x)
         /\ pools' = pools
         /\ badChannels' = badChannels
         /\ \A c \in Callers : AcquireDeclareFail(c) =>
              /\ pub'[c].pc \in {"idle", "relBad"}
              /\ pub'[c].pc = "idle" => (pub[c].phase = "first" /\ pub'[c].result = "err")
              /\ pub'[c].pc = "relBad" =>
                   (pub[c].phase = "retry" /\ pub'[c].aft = "enderr" /\ pub'[c].arg = pub[c].defCh)]_vars

\* the declaration has failed in the Acquire of a retry: the channel it
\* opened is closed and unwatched, and the deferred Release has begun
C34_Witness ==
    /\ pub[1].pc = "relBad"
    /\ pub[1].aft = "enderr"
    /\ pub[1].phase = "retry"
    /\ \E x \in ChanIds :
          /\ chans[x].state = "closed"
          /\ chans[x].notify = "none"
          /\ x # pub[1].defCh

\* conn.Channel() fails in the Acquire of caller c: the caller leaves the
\* open and no channel is made
OpenFails(c) == pub[c].pc = "acqOpen" /\ pub'[c] # pub[c] /\ chans' = chans

\* the forced-reconnect check of caller c runs its section under r.mu
ForcedCheck(c) == pub[c].pc = "acqHce" /\ pub'[c] # pub[c]

\* Acquire of caller c returns an error and no channel to PublishWithRetry
AcquireReturnsErr(c) ==
    /\ pub'[c].got = (IF pub'[c].pc = "idle" THEN <<>> ELSE pub[c].got)
    /\ IF pub[c].phase = "first"
       THEN pub'[c].pc = "idle" /\ pub'[c].result = "err"
       ELSE pub'[c].pc = "relBad" /\ pub'[c].aft = "enderr" /\ pub'[c].ch = 0

\* C35: when conn.Channel() fails in Acquire, the pools and the bad set stay
\* as they are; an error that is not "connection is not open" is returned
\* with no connection closed; an error that is leads to the section of
\* handleConnectionError, which closes r.conn and nothing else changes but
\* the channels of that connection, and then the error is returned.
C35_OpenFailureForcesCheck ==
    [][\A c \in Callers :
         /\ OpenFails(c) =>
              /\ UNCHANGED <<pools, pool, badChannels, conns, conn>>
              /\ IF ConnIsClosed(pub[c].lc)
                 THEN pub'[c].pc = "acqHce"
                 ELSE AcquireReturnsErr(c)
         /\ ForcedCheck(c) =>
              /\ UNCHANGED <<pools, pool, badChannels, conn>>
              /\ ConnIsClosed(pub[c].lc)
              /\ conns'[conn] = "closed"
              /\ \A k \in ConnIds \ {conn} : conns'[k] = conns[k]
              /\ AcquireReturnsErr(c)]_vars

\* the open failed on the lost first connection and the check has closed
\* the second, current one: only the check closes it in this specification
C35_Witness ==
    /\ conn = 2
    /\ conns[2] = "closed"
    /\ pub[1].pc = "idle"
    /\ pub[1].result = "err"

\* C36: a channel held by a caller or by warm-up for its push, or pooled,
\* has had NotifyClose called and a watcher started for it; and when the
\* notification of a channel delivers an error, the channel is eventually
\* in the bad-channel set.
C36_WatchedAndMarked ==
    /\ [](\A x \in ChanIds : InCirculation(x) => chans[x].notify # "none")
    /\ \A x \in ChanIds : (chans[x].notify = "fired") ~> (x \in badChannels)

\* the broker has closed a pooled channel that warm-up pushed, and its
\* watcher has put it into the bad set
C36_Witness ==
    \E x \in ChanIds :
        /\ x \in Range(pools[pool].buf)
        /\ chans[x].notify = "marked"
        /\ x \in badChannels

\* the call of caller c ends in this step: PublishWithRetry returns or a
\* panic leaves it
CallEnds(c) == pub[c].pc # "idle" /\ pub'[c].pc = "idle"

\* a publish attempt of the call has succeeded (return nil is pending)
Published(c) == pub[c].aft = "endok"

\* PublishWithRetry returns nil exactly when an attempt has succeeded
ReturnsOkIffPublished(c) == CallEnds(c) => (pub'[c].result = "ok" <=> Published(c))

\* after a success, and after an Acquire that failed, no publish attempt
\* follows and the call ends with the matching result
NoAttemptAfterOutcome(c) ==
    /\ pub[c].aft \in {"endok", "enderr"} => pub'[c].pc # "pub"
    /\ (CallEnds(c) /\ pub[c].aft = "enderr") => pub'[c].result = "err"

\* an initial Acquire that fails ends the call with an error, no publish
\* attempt and no Release
FailedFirstAcquire(c) ==
    (CallEnds(c) /\ pub[c].phase = "first" /\ pub[c].pc \in {"acqOpen", "acqHce"}) =>
        /\ pub'[c].result = "err"
        /\ pub[c].attempts = 0
        /\ pub[c].rel = <<>>

\* C37: PublishWithRetry returns success exactly when one of its publish
\* attempts succeeded, and attempts nothing after the first success; when
\* Acquire fails it returns an error and attempts nothing more; a failed
\* initial Acquire comes with no publish attempt and no Release.
C37_ReturnMatchesAttempts ==
    [][\A c \in Callers :
         /\ ReturnsOkIffPublished(c)
         /\ NoAttemptAfterOutcome(c)
         /\ FailedFirstAcquire(c)]_vars

\* the reconnect loops that are running
Running(l) == l.pc \notin {"notstarted", "exit", "panicked"}

\* C38: after Start has been called more than once there is still at most
\* one reconnect loop running and at most one open connection, and no loop
\* swaps while another is between its swap and the end of its teardown.
C38_StartTwiceOneLoop ==
    /\ ~(Running(loop) /\ Running(loop2))
    /\ Cardinality(OpenConns) <= 1
    /\ ~(loop.pc = "teardown" /\ loop2.pc = "teardown")

\* the loop can sleep with jitter j (milliseconds) in this state
SleepsWithJitter(j) == \E n \in 0 .. RngBound - 1 : Jitter(n) = j /\ LoopSleepTimed(n)

\* C39: the jitter of a reconnect sleep is drawn from a range symmetric about
\* zero (where the loop can sleep with jitter j it can sleep with -j) of
\* magnitude at most 500 ms, so that every sleep lies between base - 500 ms
\* and base + 500 ms and lasts at least 500 ms.
C39_SymmetricJitter ==
    /\ loop.pc = "sleep" =>
          \A j \in 0 .. JitterShift : ENABLED SleepsWithJitter(j) <=> ENABLED SleepsWithJitter(-j)
    /\ loop.slept # 0 =>
          /\ loop.jitter \in -JitterShift .. JitterShift
          /\ loop.slept - loop.jitter >= BackoffFloor * MsPerSecond
          /\ loop.slept >= JitterShift
====
